---- MODULE Spec2Model ----
(***************************************************************************)
(* Order creation (OrderService.createOrder), the admin product writes     *)
(* that race with it (ProductService.createProduct / updateProduct) and    *)
(* the retry wrapper they all run under (withRetry).                       *)
(*                                                                         *)
(* The datastore is PostgreSQL behind Prisma: a statement outside a        *)
(* transaction commits on its own; the statements of prisma.$transaction   *)
(* are invisible to other requests until the commit, an UPDATE takes the   *)
(* row's lock until the transaction ends, and a failure of any statement   *)
(* rolls the whole transaction back.  Prices are modelled as integers.     *)
(***************************************************************************)
EXTENDS Integers, Sequences, FiniteSets, TLC

\* ------------------------------------------------------------------ bounds
MaxDisturbances == 2  \* datastore failures plus admin writes in a behaviour
MaxLimit == 4         \* largest maxAttempts handed to withRetry on its own

\* ------------------------------------------------------- program constants
DefaultMaxAttempts == 3
DefaultBaseDelayMs == 1000

\* ------------------------------------------------------------------ inputs
Calls == {1, 2}                 \* concurrent POST /orders requests
UserOf(c) == IF c = 1 THEN "u1" ELSE "u2"
ProdIds == {1, 2}               \* Product.id values (autoincrement from 1)
ProductName(id) == IF id = 1 THEN "P1" ELSE "P2"

Line(p, q) == [productId |-> p, quantity |-> q]

\* request bodies of createOrder
ItemLists ==
  { << >>,
    << Line(1, 1) >>, << Line(1, 2) >>,
    << Line(1, 1), Line(1, 1) >>,
    << Line(1, 1), Line(2, 1) >>, << Line(2, 1), Line(1, 1) >>,
    << Line(2, 2), Line(1, 0), Line(1, 1) >>,
    << Line(2, 0), Line(1, 1) >> }

InitialStocks == {1, 5}         \* stock of product 1 when the server starts
InitialPrices == {10}            \* its price

\* bodies of POST /products and PUT /products/{id}
CreateInputs == { [name |-> "P2", price |-> 3, stock |-> 1],
                  [name |-> "P2", price |-> 0, stock |-> 1],
                  [name |-> "P2", price |-> 3, stock |-> -1],
                  [name |-> "", price |-> 3, stock |-> 1] }
UpdateInputs == { [stock |-> 0], [price |-> 20, stock |-> 2],
                  [stock |-> -1], [price |-> 0] }

VARIABLES
  product,      \* table Product: id -> row (exists = FALSE: no such row)
  lock,         \* row lock of each Product row: 0 or the holding call
  orders,       \* table Order (committed rows)
  orderItems,   \* table OrderItem (committed rows)
  nextOrderId,  \* sequence behind Order.id
  nextProductId,\* sequence behind Product.id
  pc,           \* position of each createOrder call
  items,        \* data.items of each call
  products,     \* result of the product lookup of each call
  total,        \* total computed by each call
  retry,        \* the withRetry invocation each call is inside
  tx,           \* uncommitted writes of each call's open transaction
  order,        \* createdOrder returned by the transaction
  result,       \* response or error each call ended with
  failures,     \* datastore failures so far
  adminOps,     \* admin writes so far
  decBy,        \* history: committed stock decrements of each call
  failed,       \* history: the call met a datastore failure
  interfered,   \* history: another writer committed since the call started
  wr,           \* a withRetry invocation on its own (retry specification)
  req,          \* the HTTP request being served, and its response
  users,        \* table User: id -> row
  authUsers,    \* accounts of the auth provider: id -> account
  read          \* the last getOrderById call and the one before it

apiVars == << req, users, authUsers, read >>

vars == << product, lock, orders, orderItems, nextOrderId, nextProductId, pc,
           items, products, total, retry, tx, order, result, failures,
           adminOps, decBy, failed, interfered, wr, apiVars >>

\* ------------------------------------------------------------------ errors
ApiError(status, code, message, details) ==
  [kind |-> "ApiError", status |-> status, code |-> code,
   message |-> << message >>, details |-> details]

\* a failure of the datastore client (connection lost, timeout, deadlock...)
DatastoreError(code) ==
  [kind |-> "Error", status |-> 0, code |-> code,
   message |-> << "datastore failure" >>, details |-> << >>]

TypeError ==
  [kind |-> "TypeError", status |-> 0, code |-> "",
   message |-> << "Cannot read properties of undefined" >>,
   details |-> << >>]

Undefined ==
  [kind |-> "undefined", status |-> 0, code |-> "", message |-> << "" >>,
   details |-> << >>]

NoResult ==
  [kind |-> "none", status |-> 0, code |-> "", message |-> << "" >>,
   details |-> << >>]

IsApiError(e) == e.kind = "ApiError"

\* ---------------------------------------------------------------- withRetry
RECURSIVE Pow2(_)
Pow2(n) == IF n <= 0 THEN 1 ELSE 2 * Pow2(n - 1)

\* the throw with every failure wrapped, domain errors included
RetryThrow_AlwaysWraps(lastError, max, op) ==
  IF lastError.kind = "undefined" THEN TypeError
  ELSE [kind |-> "ApiError", status |-> 500, code |-> "RETRY_FAILED",
        message |-> << "Fallo tras intentos", max, op >>,
        details |-> lastError.message]

\* the throw after the loop: an ApiError goes out unchanged, any other
\* failure is wrapped; with no failure recorded, reading lastError.message
\* raises a TypeError
RetryThrow(lastError, max, op) ==
  IF IsApiError(lastError) THEN lastError
  ELSE IF lastError.kind = "undefined" THEN TypeError
  ELSE [kind |-> "ApiError", status |-> 500, code |-> "RETRY_FAILED",
        message |-> << "Fallo tras intentos", max, op >>,
        details |-> lastError.message]

\* the state of one withRetry invocation; st is where it stands:
\* "run" (operation in flight), "wait" (backoff timer), "returned", "thrown"
RetryStart(op, max, base) ==
  [op |-> op, max |-> max, base |-> base, attempt |-> 1,
   lastError |-> Undefined, calls |-> 0, waited |-> 0, delay |-> 0,
   st |-> IF 1 <= max THEN "run" ELSE "thrown",
   thrown |-> IF 1 <= max THEN NoResult ELSE RetryThrow(Undefined, max, op)]

\* the operation of the current attempt resolved
RetrySuccess(r) == [r EXCEPT !.calls = @ + 1, !.st = "returned"]

\* the test of the catch block taken one attempt late
RetryGivesUp_OffByOne(r, err) == r.attempt = r.max + 1

\* does the catch block leave the loop after this failure
RetryGivesUp(r, err) == r.attempt = r.max

\* the catch block leaving the loop at once on a domain error
RetryFailure_ShortCircuit(r, err) ==
  IF RetryGivesUp(r, err) \/ IsApiError(err)
  THEN [r EXCEPT !.calls = @ + 1, !.lastError = err, !.st = "thrown",
                 !.thrown = RetryThrow(err, r.max, r.op)]
  ELSE [r EXCEPT !.calls = @ + 1, !.lastError = err, !.st = "wait",
                 !.delay = r.base * Pow2(r.attempt - 1)]

\* the operation of the current attempt rejected with err
RetryFailure(r, err) ==
  IF RetryGivesUp(r, err)
  THEN [r EXCEPT !.calls = @ + 1, !.lastError = err, !.st = "thrown",
                 !.thrown = RetryThrow(err, r.max, r.op)]
  ELSE [r EXCEPT !.calls = @ + 1, !.lastError = err, !.st = "wait",
                 !.delay = r.base * Pow2(r.attempt - 1)]

\* the backoff with the same delay after every attempt
RetryBackoff_FixedDelay(r) ==
  [r EXCEPT !.waited = @ + r.base, !.delay = 0, !.attempt = @ + 1,
            !.st = IF r.attempt + 1 <= r.max THEN "run" ELSE "thrown",
            !.thrown = IF r.attempt + 1 <= r.max THEN NoResult
                       ELSE RetryThrow(r.lastError, r.max, r.op)]

\* the backoff timer fired: next iteration of the loop
RetryBackoff(r) ==
  [r EXCEPT !.waited = @ + r.delay, !.delay = 0, !.attempt = @ + 1,
            !.st = IF r.attempt + 1 <= r.max THEN "run" ELSE "thrown",
            !.thrown = IF r.attempt + 1 <= r.max THEN NoResult
                       ELSE RetryThrow(r.lastError, r.max, r.op)]

NoRetry == RetryStart("", 0, 0)
IdleRetry == [NoRetry EXCEPT !.st = "idle"]

\* ------------------------------------------------------------- createOrder
NullProduct == [id |-> 0, name |-> "", price |-> 0, stock |-> 0]
IsNull(p) == p.id = 0

\* prisma.product.findUnique({where: {id}, select: {id, name, price, stock}})
FindUnique(tbl, id) ==
  IF id \in DOMAIN tbl /\ tbl[id].exists
  THEN [id |-> id, name |-> tbl[id].name, price |-> tbl[id].price,
        stock |-> tbl[id].stock]
  ELSE NullProduct

\* the product lookup: one findUnique per line, results in line order
\* (the findUnique calls of one tick are sent as one query, so the rows
\* come from one snapshot of the table)
LookupProducts(tbl, its) ==
  [i \in 1..Len(its) |-> FindUnique(tbl, its[i].productId)]

\* the filter without its stock comparison
IsInvalidItem_NoStockCheck(p, quantity) == IsNull(p) \/ quantity <= 0

\* the filter of invalidItems
IsInvalidItem(p, quantity) ==
  IsNull(p) \/ quantity <= 0 \/ quantity > p.stock

\* the message of one invalid line
Reason(p, quantity) ==
  IF IsNull(p) THEN [kind |-> "Producto no encontrado"]
  ELSE IF quantity <= 0
       THEN [kind |-> "Cantidad invalida para producto", name |-> p.name]
       ELSE [kind |-> "Stock insuficiente para producto", name |-> p.name,
             disponible |-> p.stock]

\* the empty-items check that lets every list through
NoItems_Never(its) == FALSE

\* !items || items.length === 0 (a missing list is taken as the empty one)
NoItems(its) == Len(its) = 0

\* indexes of the lines the filter keeps, in line order
RECURSIVE InvalidIndexes(_, _, _)
InvalidIndexes(its, ps, i) ==
  IF i > Len(its) THEN << >>
  ELSE IF IsInvalidItem(ps[i], its[i].quantity)
       THEN << i >> \o InvalidIndexes(its, ps, i + 1)
       ELSE InvalidIndexes(its, ps, i + 1)

\* the details cut to the first invalid line
InvalidDetails_FirstOnly(its, ps) ==
  LET idx == InvalidIndexes(its, ps, 1)
  IN  [k \in 1..1 |-> Reason(ps[idx[k]], its[idx[k]].quantity)]

\* the details of the INVALID_ORDER error: one message per invalid line
InvalidDetails(its, ps) ==
  LET idx == InvalidIndexes(its, ps, 1)
  IN  [k \in 1..Len(idx) |-> Reason(ps[idx[k]], its[idx[k]].quantity)]

\* products.find(p => p.id === item.productId)
FindProduct(ps, id) ==
  ps[CHOOSE i \in 1..Len(ps) :
       ps[i].id = id /\ \A j \in 1..(i - 1) : ps[j].id # id]

\* the reduce with the quantity left out of the product
RECURSIVE ComputeTotal_NoQuantity(_, _, _)
ComputeTotal_NoQuantity(its, ps, n) ==
  IF n = 0 THEN 0
  ELSE ComputeTotal_NoQuantity(its, ps, n - 1)
       + FindProduct(ps, its[n].productId).price

\* data.items.reduce((sum, item) => sum + product.price * item.quantity, 0)
RECURSIVE ComputeTotal(_, _, _)
ComputeTotal(its, ps, n) ==
  IF n = 0 THEN 0
  ELSE ComputeTotal(its, ps, n - 1)
       + FindProduct(ps, its[n].productId).price * its[n].quantity

\* the catch of createOrder
CreateOrderCatch(err) ==
  IF IsApiError(err) THEN err
  ELSE ApiError(500, "ORDER_CREATION_FAILED", "Error al crear pedido", << >>)

\* the returned OrderResponse
OrderResponse(o, its) ==
  [kind |-> "ok", id |-> o.id, userId |-> o.userId, total |-> o.total,
   status |-> o.status,
   items |-> [i \in 1..Len(its) |->
               [productId |-> its[i].productId,
                productName |-> its[i].productName,
                quantity |-> its[i].quantity, price |-> its[i].price]]]

\* ------------------------------------------------------------ the datastore
NoRow == [exists |-> FALSE, name |-> "", price |-> 0, stock |-> 0]
NoOrder == [id |-> 0, userId |-> "", total |-> 0, status |-> ""]
NoDec == [p \in ProdIds |-> 0]
EmptyTx == [order |-> NoOrder, dec |-> NoDec, next |-> 1]

\* tx.order.create inside the transaction: the row is written under the
\* transaction, invisible to the others until the commit
TxOrderInsert(t, row) == [t EXCEPT !.order = row]

\* tx.product.update({data: {stock: {decrement: quantity}}}) inside the
\* transaction: UPDATE Product SET stock = stock - quantity WHERE id = p
TxStockDecrement(t, p, quantity) ==
  [t EXCEPT !.dec[p] = @ + quantity, !.next = @ + 1]

\* an abort that leaves the statements already executed in place
RolledBack_KeepsWrites(t) == t

\* what an aborted transaction leaves in the database: nothing
RolledBack(t) == EmptyTx

\* table Order after the writes of t are committed
CommitOrders(tbl, t) == IF t.order.id = 0 THEN tbl ELSE tbl \cup {t.order}

\* a commit that loses the stock decrements
CommitStock_Dropped(tbl, t) == tbl

\* table Product after the writes of t are committed
CommitStock(tbl, t) ==
  [p \in ProdIds |-> [tbl[p] EXCEPT !.stock = @ - t.dec[p]]]

\* prisma.orderItem.findMany({where: {orderId}}), with the product's name
RECURSIVE ItemsOfOrder(_, _, _)
ItemsOfOrder(rows, tbl, orderId) ==
  LET mine == {r \in rows : r.orderId = orderId}
  IN  IF mine = {} THEN << >>
      ELSE LET r == CHOOSE x \in mine : \A y \in mine : x.id <= y.id
           IN  << [productId |-> r.productId, quantity |-> r.quantity,
                   price |-> r.price, productName |-> tbl[r.productId].name] >>
               \o ItemsOfOrder(rows \ {r}, tbl, orderId)

Started(c) == pc[c] # "idle"
\* the calls that see a commit by another writer (history)
Disturb(writer) ==
  [c \in Calls |-> IF c # writer /\ Started(c) THEN TRUE ELSE interfered[c]]

\* ---------------------------------------------------------------- API data
\* strings the code looks into are sequences of characters
EmailRoot == << "r", "@", "x" >>
EmailAna == << "a", "@", "x" >>
EmailBo == << "b", "@", "x" >>
PwGood == << "s", "e", "c", "r", "e", "t" >>
PwOther == << "o", "t", "h", "e", "r", "7", "7" >>
PwShort == << "1", "2", "3" >>

UserIds == {"u0", "u1", "u2"}

\* the id the auth provider gives to the account of an email
AccountId(email) ==
  IF email = EmailRoot THEN "u0" ELSE IF email = EmailAna THEN "u1" ELSE "u2"

\* s.includes(ch)
Includes(s, ch) == \E i \in 1..Len(s) : s[i] = ch

DigitChars == << "0", "1", "2", "3", "4", "5", "6", "7", "8", "9" >>
IsDigit(ch) == \E i \in 1..Len(DigitChars) : DigitChars[i] = ch
DigitValue(ch) == (CHOOSE i \in 1..Len(DigitChars) : DigitChars[i] = ch) - 1

NaN == [nan |-> TRUE, value |-> 0]

\* the value of the leading digits of s[i..], after acc
RECURSIVE ParseDigits(_, _, _)
ParseDigits(s, i, acc) ==
  IF i > Len(s) \/ ~IsDigit(s[i]) THEN acc
  ELSE ParseDigits(s, i + 1, acc * 10 + DigitValue(s[i]))

\* parseInt(s) of a string without sign or blanks
ParseInt(s) ==
  IF Len(s) = 0 \/ ~IsDigit(s[1]) THEN NaN
  ELSE [nan |-> FALSE, value |-> ParseDigits(s, 1, 0)]

\* fresh: the role is still the one the row was created with (history)
NoUser == [exists |-> FALSE, email |-> << >>, role |-> "", fresh |-> FALSE]
NoAccount ==
  [exists |-> FALSE, email |-> << >>, password |-> << >>, session |-> FALSE]

NoData == [none |-> TRUE]
NoResponse ==
  [status |-> 0, shape |-> "none", code |-> "", message |-> << >>,
   details |-> << >>, data |-> NoData]

NoRequest ==
  [op |-> "", actor |-> "none", param |-> << >>, body |-> NoData]

NoRead == [id |-> 0, result |-> NoResult, seen |-> << >>]

Init ==
  /\ \E s \in InitialStocks, pr \in InitialPrices :
       product = [p \in ProdIds |->
                    IF p = 1
                    THEN [exists |-> TRUE, name |-> ProductName(1),
                          price |-> pr, stock |-> s]
                    ELSE NoRow]
  /\ lock = [p \in ProdIds |-> 0]
  /\ orders = {}
  /\ orderItems = {}
  /\ nextOrderId = 1
  /\ nextProductId = 2
  /\ pc = [c \in Calls |-> "idle"]
  /\ items = [c \in Calls |-> << >>]
  /\ products = [c \in Calls |-> << >>]
  /\ total = [c \in Calls |-> 0]
  /\ retry = [c \in Calls |-> NoRetry]
  /\ tx = [c \in Calls |-> EmptyTx]
  /\ order = [c \in Calls |-> NoOrder]
  /\ result = [c \in Calls |-> NoResult]
  /\ failures = 0
  /\ adminOps = 0
  /\ decBy = [c \in Calls |-> NoDec]
  /\ failed = [c \in Calls |-> FALSE]
  /\ interfered = [c \in Calls |-> FALSE]
  /\ wr = IdleRetry
  /\ req = [pc |-> "idle", request |-> NoRequest, user |-> NoUser,
            retry |-> NoRetry, error |-> NoResult, response |-> NoResponse]
  /\ users = [u \in UserIds |->
               IF u = "u0"
               THEN [exists |-> TRUE, email |-> EmailRoot, role |-> "admin",
                     fresh |-> FALSE]
               ELSE NoUser]
  /\ authUsers = [u \in UserIds |->
                   IF u = "u0"
                   THEN [exists |-> TRUE, email |-> EmailRoot,
                         password |-> PwGood, session |-> TRUE]
                   ELSE NoAccount]
  /\ read = [id |-> 0, retry |-> NoRetry, result |-> NoResult,
             seen |-> << >>, prev |-> NoRead]

dbVars == << product, lock, orders, orderItems, nextOrderId, nextProductId >>
histVars == << decBy, failed, interfered >>

\* createOrder is entered: the empty-items check, then the first lookup
Start(c, its) ==
  /\ pc[c] = "idle"
  /\ items' = [items EXCEPT ![c] = its]
  /\ IF NoItems(its)
     THEN /\ result' = [result EXCEPT ![c] =
               CreateOrderCatch(ApiError(400, "INVALID_ITEMS",
                 "Se requiere al menos un item en el pedido", << >>))]
          /\ pc' = [pc EXCEPT ![c] = "done"]
          /\ UNCHANGED retry
     ELSE /\ retry' = [retry EXCEPT ![c] =
               RetryStart("obtener productos para pedido",
                          DefaultMaxAttempts, DefaultBaseDelayMs)]
          /\ pc' = [pc EXCEPT ![c] = "lookup"]
          /\ UNCHANGED result
  /\ UNCHANGED << dbVars, products, total, tx, order, failures, adminOps,
                  decBy, failed, interfered, wr, apiVars >>

\* the lookup resolves; validation and the total follow without a
\* suspension point, then the first attempt of the transaction starts
LookupOk(c) ==
  /\ pc[c] = "lookup" /\ retry[c].st = "run"
  /\ LET ps == LookupProducts(product, items[c])
     IN  /\ products' = [products EXCEPT ![c] = ps]
         /\ IF Len(InvalidIndexes(items[c], ps, 1)) > 0
            THEN /\ result' = [result EXCEPT ![c] =
                      CreateOrderCatch(ApiError(400, "INVALID_ORDER",
                        "Error en los items del pedido",
                        InvalidDetails(items[c], ps)))]
                 /\ pc' = [pc EXCEPT ![c] = "done"]
                 /\ retry' = [retry EXCEPT ![c] = RetrySuccess(@)]
                 /\ UNCHANGED << total, tx >>
            ELSE /\ total' = [total EXCEPT ![c] =
                      ComputeTotal(items[c], ps, Len(items[c]))]
                 /\ retry' = [retry EXCEPT ![c] =
                      RetryStart("crear pedido", DefaultMaxAttempts,
                                 DefaultBaseDelayMs)]
                 /\ tx' = [tx EXCEPT ![c] = EmptyTx]
                 /\ pc' = [pc EXCEPT ![c] = "txCreate"]
                 /\ UNCHANGED result
  /\ UNCHANGED << dbVars, items, order, failures, adminOps, histVars, wr, apiVars >>

\* a catch block that never lets the error out of the phase
Rejected_NeverEnds(c, err, phase) ==
  LET r == RetryFailure(retry[c], err)
  IN  /\ retry' = [retry EXCEPT ![c] = r]
      /\ failed' = [failed EXCEPT ![c] = TRUE]
      /\ pc' = [pc EXCEPT ![c] = phase]
      /\ UNCHANGED result

\* the catch block of withRetry after the operation of call c rejected
\* with err: back to the start of the phase after a wait, or out of
\* createOrder through its catch
Rejected(c, err, phase) ==
  LET r == RetryFailure(retry[c], err)
  IN  /\ retry' = [retry EXCEPT ![c] = r]
      /\ failed' = [failed EXCEPT ![c] = TRUE]
      /\ IF r.st = "thrown"
         THEN /\ result' = [result EXCEPT ![c] = CreateOrderCatch(r.thrown)]
              /\ pc' = [pc EXCEPT ![c] = "done"]
         ELSE /\ pc' = [pc EXCEPT ![c] = phase]
              /\ UNCHANGED result

\* the lookup rejects
LookupFail(c) ==
  /\ pc[c] = "lookup" /\ retry[c].st = "run"
  /\ failures + adminOps < MaxDisturbances
  /\ failures' = failures + 1
  /\ Rejected(c, DatastoreError("P1001"), "lookup")
  /\ UNCHANGED << dbVars, items, products, total, tx, order, adminOps,
                  decBy, interfered, wr, apiVars >>

\* the backoff timer of the call's withRetry fires
Backoff(c) ==
  /\ pc[c] \in {"lookup", "txCreate", "readItems"} /\ retry[c].st = "wait"
  /\ retry' = [retry EXCEPT ![c] = RetryBackoff(@)]
  /\ UNCHANGED << dbVars, pc, items, products, total, tx, order, result,
                  failures, adminOps, histVars, wr, apiVars >>

\* first statement of the transaction: tx.order.create
TxOrderCreate(c) ==
  /\ pc[c] = "txCreate" /\ retry[c].st = "run"
  /\ tx' = [tx EXCEPT ![c] =
       TxOrderInsert(EmptyTx, [id |-> nextOrderId, userId |-> UserOf(c),
                               total |-> total[c], status |-> "pending"])]
  /\ nextOrderId' = nextOrderId + 1
  /\ pc' = [pc EXCEPT ![c] = "txUpdate"]
  /\ UNCHANGED << product, lock, orders, orderItems, nextProductId, items,
                  products, total, retry, order, result, failures, adminOps,
                  histVars, wr, apiVars >>

\* the product the next tx.product.update of call c is about
NextProduct(c) == items[c][tx[c].next].productId

\* a stock decrement issued without waiting for the Order insert
TxProductUpdate_BeforeInsert(c) ==
  /\ pc[c] \in {"txCreate", "txUpdate"} /\ retry[c].st = "run"
  /\ LET p == NextProduct(c)
         q == items[c][tx[c].next].quantity
     IN  /\ lock[p] \in {0, c}
         /\ lock' = [lock EXCEPT ![p] = c]
         /\ tx' = [tx EXCEPT ![c] = TxStockDecrement(@, p, q)]
         /\ pc' = [pc EXCEPT ![c] =
              IF tx[c].next = Len(items[c]) THEN "txCommit" ELSE "txUpdate"]
  /\ UNCHANGED << product, orders, orderItems, nextOrderId, nextProductId,
                  items, products, total, retry, order, result, failures,
                  adminOps, histVars, wr, apiVars >>

\* next statement of the transaction: the stock decrement of one line;
\* it waits while another transaction holds the row
TxProductUpdate(c) ==
  /\ pc[c] = "txUpdate" /\ retry[c].st = "run"
  /\ LET p == NextProduct(c)
         q == items[c][tx[c].next].quantity
     IN  /\ lock[p] \in {0, c}
         /\ lock' = [lock EXCEPT ![p] = c]
         /\ tx' = [tx EXCEPT ![c] = TxStockDecrement(@, p, q)]
         /\ pc' = [pc EXCEPT ![c] =
              IF tx[c].next = Len(items[c]) THEN "txCommit" ELSE "txUpdate"]
  /\ UNCHANGED << product, orders, orderItems, nextOrderId, nextProductId,
                  items, products, total, retry, order, result, failures,
                  adminOps, histVars, wr, apiVars >>

\* the writes of t (a commit, or what a rollback leaves) reach the tables;
\* the locks of call c are released
Apply(c, t) ==
  /\ orders' = CommitOrders(orders, t)
  /\ product' = CommitStock(product, t)
  /\ decBy' = [decBy EXCEPT ![c] =
       [p \in ProdIds |-> @[p] + (product[p].stock - product'[p].stock)]]
  /\ lock' = [p \in ProdIds |-> IF lock[p] = c THEN 0 ELSE lock[p]]

\* COMMIT; withRetry returns createdOrder and the read-back starts
TxCommit(c) ==
  /\ pc[c] = "txCommit" /\ retry[c].st = "run"
  /\ Apply(c, tx[c])
  /\ order' = [order EXCEPT ![c] = tx[c].order]
  /\ tx' = [tx EXCEPT ![c] = EmptyTx]
  /\ retry' = [retry EXCEPT ![c] =
       RetryStart("obtener items del pedido", DefaultMaxAttempts,
                  DefaultBaseDelayMs)]
  /\ pc' = [pc EXCEPT ![c] = "readItems"]
  /\ interfered' = Disturb(c)
  /\ UNCHANGED << orderItems, nextOrderId, nextProductId, items, products,
                  total, result, failures, adminOps, failed, wr, apiVars >>

InTx(c) == pc[c] \in {"txCreate", "txUpdate", "txCommit"}

\* the transaction of call c is aborted with err and rolled back
Abort(c, err) ==
  /\ Apply(c, RolledBack(tx[c]))
  /\ tx' = [tx EXCEPT ![c] = EmptyTx]
  /\ Rejected(c, err, "txCreate")

\* a statement of the transaction, or its commit, fails
TxFail(c) ==
  /\ InTx(c) /\ retry[c].st = "run"
  /\ failures + adminOps < MaxDisturbances
  /\ failures' = failures + 1
  /\ Abort(c, DatastoreError("P1001"))
  /\ UNCHANGED << orderItems, nextOrderId, nextProductId, items, products,
                  total, order, adminOps, interfered, wr, apiVars >>

\* call c waits for a row that d holds
WaitsFor(c, d) ==
  /\ pc[c] = "txUpdate" /\ retry[c].st = "run"
  /\ lock[NextProduct(c)] = d

\* two transactions wait for each other's row: PostgreSQL aborts one
TxDeadlock(c) ==
  /\ \E d \in Calls \ {c} : WaitsFor(c, d) /\ WaitsFor(d, c)
  /\ Abort(c, DatastoreError("40P01"))
  /\ UNCHANGED << orderItems, nextOrderId, nextProductId, items, products,
                  total, order, failures, adminOps, interfered, wr, apiVars >>

\* the read-back of the order's items resolves: the response
ReadItems(c) ==
  /\ pc[c] = "readItems" /\ retry[c].st = "run"
  /\ retry' = [retry EXCEPT ![c] = RetrySuccess(@)]
  /\ result' = [result EXCEPT ![c] =
       OrderResponse(order[c], ItemsOfOrder(orderItems, product, order[c].id))]
  /\ pc' = [pc EXCEPT ![c] = "done"]
  /\ UNCHANGED << dbVars, items, products, total, tx, order, failures,
                  adminOps, histVars, wr, apiVars >>

\* the read-back rejects
ReadFail(c) ==
  /\ pc[c] = "readItems" /\ retry[c].st = "run"
  /\ failures + adminOps < MaxDisturbances
  /\ failures' = failures + 1
  /\ Rejected(c, DatastoreError("P1001"), "readItems")
  /\ UNCHANGED << dbVars, items, products, total, tx, order, adminOps,
                  decBy, interfered, wr, apiVars >>

\* -------------------------------------------------------- ProductService
\* the checks of createProduct before the insert
CreateProductValid(data) ==
  ~(data.price <= 0) /\ ~(data.stock < 0) /\ data.name # ""

\* POST /products by an admin
CreateProduct(data) ==
  /\ failures + adminOps < MaxDisturbances
  /\ IF CreateProductValid(data) /\ nextProductId \in ProdIds
     THEN /\ product' = [product EXCEPT ![nextProductId] =
               [exists |-> TRUE, name |-> data.name, price |-> data.price,
                stock |-> data.stock]]
          /\ nextProductId' = nextProductId + 1
          /\ adminOps' = adminOps + 1
          /\ interfered' = Disturb(0)
     ELSE UNCHANGED << product, nextProductId, adminOps, interfered >>
  /\ UNCHANGED << lock, orders, orderItems, nextOrderId, pc, items, products,
                  total, retry, tx, order, result, failures, decBy,
                  failed, wr, apiVars >>

Has(data, f) == f \in DOMAIN data

\* the checks of updateProduct before the update
UpdateProductValid(data) ==
  /\ ~(Has(data, "price") /\ data.price <= 0)
  /\ ~(Has(data, "stock") /\ data.stock < 0)

\* prisma.product.update({where: {id}, data})
UpdatedRow(row, data) ==
  [row EXCEPT !.price = IF Has(data, "price") THEN data.price ELSE @,
              !.stock = IF Has(data, "stock") THEN data.stock ELSE @]

\* an update that recomputes the totals of the orders from the new price
UpdateProduct_Reprices(id, data) ==
  /\ failures + adminOps < MaxDisturbances
  /\ lock[id] = 0
  /\ IF UpdateProductValid(data) /\ product[id].exists
     THEN /\ product' = [product EXCEPT ![id] = UpdatedRow(@, data)]
          /\ orders' = {[o EXCEPT !.total = UpdatedRow(product[id], data).price] :
                          o \in orders}
          /\ adminOps' = adminOps + 1
          /\ interfered' = Disturb(0)
     ELSE UNCHANGED << product, orders, adminOps, interfered >>
  /\ UNCHANGED << lock, orderItems, nextOrderId, nextProductId, pc,
                  items, products, total, retry, tx, order, result, failures,
                  decBy, failed, wr, apiVars >>

\* PUT /products/{id} by an admin; the UPDATE waits for the row's lock
UpdateProduct(id, data) ==
  /\ failures + adminOps < MaxDisturbances
  /\ lock[id] = 0
  /\ IF UpdateProductValid(data) /\ product[id].exists
     THEN /\ product' = [product EXCEPT ![id] = UpdatedRow(@, data)]
          /\ adminOps' = adminOps + 1
          /\ interfered' = Disturb(0)
     ELSE UNCHANGED << product, adminOps, interfered >>
  /\ UNCHANGED << lock, orders, orderItems, nextOrderId, nextProductId, pc,
                  items, products, total, retry, tx, order, result, failures,
                  decBy, failed, wr, apiVars >>

Next ==
  \/ \E c \in Calls, its \in ItemLists : Start(c, its)
  \/ \E c \in Calls : LookupOk(c)
  \/ \E c \in Calls : LookupFail(c)
  \/ \E c \in Calls : Backoff(c)
  \/ \E c \in Calls : TxOrderCreate(c)
  \/ \E c \in Calls : TxProductUpdate(c)
  \/ \E c \in Calls : TxCommit(c)
  \/ \E c \in Calls : TxFail(c)
  \/ \E c \in Calls : TxDeadlock(c)
  \/ \E c \in Calls : ReadItems(c)
  \/ \E c \in Calls : ReadFail(c)
  \/ \E data \in CreateInputs : CreateProduct(data)
  \/ \E id \in ProdIds, data \in UpdateInputs : UpdateProduct(id, data)

Spec == Init /\ [][Next]_vars

\* ------------------------------------- createOrder under any failure pattern
\* the requests made while the datastore may fail at every attempt
FaultItemLists ==
  { << Line(1, 1), Line(2, 1) >>, << Line(2, 1), Line(1, 1) >> }

\* the lookup rejects (no limit on the number of failures)
LookupDown(c) ==
  /\ pc[c] = "lookup" /\ retry[c].st = "run"
  /\ Rejected(c, DatastoreError("P1001"), "lookup")
  /\ UNCHANGED << dbVars, items, products, total, tx, order, failures,
                  adminOps, decBy, interfered, wr, apiVars >>

\* a statement of the transaction, or its commit, fails
TxDown(c) ==
  /\ InTx(c) /\ retry[c].st = "run"
  /\ Abort(c, DatastoreError("P1001"))
  /\ UNCHANGED << orderItems, nextOrderId, nextProductId, items, products,
                  total, order, failures, adminOps, interfered, wr, apiVars >>

\* the read-back rejects
ReadDown(c) ==
  /\ pc[c] = "readItems" /\ retry[c].st = "run"
  /\ Rejected(c, DatastoreError("P1001"), "readItems")
  /\ UNCHANGED << dbVars, items, products, total, tx, order, failures,
                  adminOps, decBy, interfered, wr, apiVars >>

\* the steps of call c that wait for the datastore or for a timer
Response(c) ==
  \/ LookupOk(c) \/ LookupDown(c) \/ Backoff(c)
  \/ TxOrderCreate(c) \/ TxProductUpdate(c) \/ TxCommit(c) \/ TxDown(c)
  \/ TxDeadlock(c)
  \/ ReadItems(c) \/ ReadDown(c)

NextFaults ==
  \/ \E c \in Calls, its \in FaultItemLists : Start(c, its)
  \/ \E c \in Calls : LookupOk(c)
  \/ \E c \in Calls : LookupDown(c)
  \/ \E c \in Calls : Backoff(c)
  \/ \E c \in Calls : TxOrderCreate(c)
  \/ \E c \in Calls : TxProductUpdate(c)
  \/ \E c \in Calls : TxCommit(c)
  \/ \E c \in Calls : TxDown(c)
  \/ \E c \in Calls : TxDeadlock(c)
  \/ \E c \in Calls : ReadItems(c)
  \/ \E c \in Calls : ReadDown(c)
  \/ \E data \in CreateInputs : CreateProduct(data)

SpecFaults == Init /\ [][NextFaults]_vars

\* the datastore answers every statement and every timer fires
SpecFaultsFair ==
  SpecFaults /\ \A c \in Calls : WF_vars(Response(c))

\* ------------------------------------------------- withRetry on its own
\* arguments and operation outcomes of a withRetry invocation
RetryLimits == (-1)..MaxLimit
BaseDelays == {DefaultBaseDelayMs, 250}
OperationErrors ==
  { DatastoreError("P1001"), DatastoreError("P2025"),
    ApiError(404, "ORDER_NOT_FOUND", "Pedido no encontrado", << >>),
    ApiError(400, "INVALID_ORDER", "Error en los items del pedido", << >>) }

orderVars == << product, lock, orders, orderItems, nextOrderId,
                nextProductId, pc, items, products, total, retry, tx, order,
                result, failures, adminOps, decBy, failed, interfered >>

\* withRetry(operation, name, max, base) is called
WrInvoke(max, base) ==
  /\ wr.st = "idle"
  /\ wr' = RetryStart("operation", max, base)
  /\ UNCHANGED << orderVars, apiVars >>

\* the operation of the current attempt resolves
WrResolve ==
  /\ wr.st = "run"
  /\ wr' = RetrySuccess(wr)
  /\ UNCHANGED << orderVars, apiVars >>

\* the operation of the current attempt rejects with err
WrReject(err) ==
  /\ wr.st = "run"
  /\ wr' = RetryFailure(wr, err)
  /\ UNCHANGED << orderVars, apiVars >>

\* the backoff timer fires
WrTimer ==
  /\ wr.st = "wait"
  /\ wr' = RetryBackoff(wr)
  /\ UNCHANGED << orderVars, apiVars >>

NextRetry ==
  \/ \E max \in RetryLimits, base \in BaseDelays : WrInvoke(max, base)
  \/ WrResolve
  \/ \E err \in OperationErrors : WrReject(err)
  \/ WrTimer

SpecRetry == Init /\ [][NextRetry]_vars

\* ------------------------------------------- withRetry around one operation
\* how many of the first attempts meet an outage of the service called
Patterns ==
  { [i \in 1..DefaultMaxAttempts |-> IF i <= k THEN "down" ELSE "exec"] :
      k \in 0..DefaultMaxAttempts }

Resolved == [kind |-> "ok"]

\* the for loop of withRetry run to its end: an attempt during an outage
\* rejects, any other attempt ends as the operation does on the current rows
RECURSIVE RunRetry(_, _, _)
RunRetry(r, pat, out) ==
  IF r.st # "run" THEN r
  ELSE LET o == IF pat[r.attempt] = "down" THEN DatastoreError("P1001")
                ELSE out
       IN  IF o.kind = "ok" THEN RetrySuccess(r)
           ELSE LET f == RetryFailure(r, o)
                IN  IF f.st = "wait" THEN RunRetry(RetryBackoff(f), pat, out)
                    ELSE f

DefaultRetry(op) == RetryStart(op, DefaultMaxAttempts, DefaultBaseDelayMs)

\* ------------------------------------------------ OrderService.getOrderById
\* ids asked for: 3 is the id of no order
OrderIds == {1, 2, 3}
\* the requests that create the orders read back
ReadItemLists == { << Line(1, 1) >>, << Line(1, 2) >> }

\* prisma.order.findUnique({where: {id}}): the row, or null
FindOrder(tbl, id) ==
  IF \E o \in tbl : o.id = id THEN CHOOSE o \in tbl : o.id = id ELSE NoOrder

\* a lookup that rejects when there is no row
FindOrderOutcome_RejectsNull(o, id) ==
  IF o.id = 0
  THEN ApiError(404, "ORDER_NOT_FOUND", "Pedido no encontrado",
                << "No existe un pedido con ID", id >>)
  ELSE Resolved

\* how the findUnique promise ends when the datastore answers: it resolves,
\* with null when there is no row
FindOrderOutcome(o, id) == Resolved

\* after withRetry returned: the null check, then the response
GetOrderByIdReturn(o, its, id) ==
  IF o.id = 0
  THEN ApiError(404, "ORDER_NOT_FOUND", "Pedido no encontrado",
                << "No existe un pedido con ID", id >>)
  ELSE OrderResponse(o, its)

GetOrderByIdCatch(err) ==
  IF IsApiError(err) THEN err
  ELSE ApiError(500, "ORDER_FETCH_FAILED", "Error al obtener pedido", << >>)

\* a read that also marks the order as seen
GetOrderById_Touch(id, pat) ==
  LET o == FindOrder(orders, id)
      r == RunRetry(DefaultRetry("obtener pedido por ID"), pat,
                    FindOrderOutcome(o, id))
  IN  /\ read' = [id |-> id, retry |-> r,
                  result |-> IF r.st = "returned"
                             THEN GetOrderByIdReturn(o,
                                    ItemsOfOrder(orderItems, product, id), id)
                             ELSE GetOrderByIdCatch(r.thrown),
                  seen |-> << orders, orderItems >>,
                  prev |-> [id |-> read.id, result |-> read.result,
                            seen |-> read.seen]]
      /\ orders' = {IF x.id = id THEN [x EXCEPT !.status = "seen"] ELSE x :
                      x \in orders}
      /\ UNCHANGED << product, lock, orderItems, nextOrderId, nextProductId,
                      pc, items, products, total, retry, tx, order, result,
                      failures, adminOps, decBy, failed, interfered, wr, req,
                      users, authUsers >>

\* one getOrderById call; the lookup is a single statement
GetOrderById(id, pat) ==
  LET o == FindOrder(orders, id)
      r == RunRetry(DefaultRetry("obtener pedido por ID"), pat,
                    FindOrderOutcome(o, id))
  IN  /\ read' = [id |-> id, retry |-> r,
                  result |-> IF r.st = "returned"
                             THEN GetOrderByIdReturn(o,
                                    ItemsOfOrder(orderItems, product, id), id)
                             ELSE GetOrderByIdCatch(r.thrown),
                  seen |-> << orders, orderItems >>,
                  prev |-> [id |-> read.id, result |-> read.result,
                            seen |-> read.seen]]
      /\ UNCHANGED << orderVars, wr, req, users, authUsers >>

NextRead ==
  \/ \E c \in Calls, its \in ReadItemLists : Start(c, its)
  \/ \E c \in Calls : LookupOk(c)
  \/ \E c \in Calls : TxOrderCreate(c)
  \/ \E c \in Calls : TxProductUpdate(c)
  \/ \E c \in Calls : TxCommit(c)
  \/ \E c \in Calls : ReadItems(c)
  \/ \E id \in OrderIds, pat \in Patterns : GetOrderById(id, pat)

SpecRead == Init /\ [][NextRead]_vars

\* --------------------------------------------------------- HTTP responses
\* errorMiddleware: the response to an error passed to next()
ErrorMiddleware(err) ==
  IF IsApiError(err)
  THEN [status |-> err.status, shape |-> "structured", code |-> err.code,
        message |-> err.message, details |-> err.details, data |-> NoData]
  ELSE [status |-> 500, shape |-> "structured",
        code |-> "INTERNAL_SERVER_ERROR",
        message |-> << "Ocurrio un error inesperado en el servidor" >>,
        details |-> err.message, data |-> NoData]

\* the catch of the /register and /login routes: {error: error.message}
AuthRouteCatch(err) ==
  [status |-> 400, shape |-> "text", code |-> "", message |-> err.message,
   details |-> << >>, data |-> NoData]

\* their answer to a body without email or password
AuthRouteMissing ==
  [status |-> 400, shape |-> "text", code |-> "",
   message |-> << "Email y contrasena son requeridos" >>,
   details |-> << >>, data |-> NoData]

\* res.status(status).json(data)
Json(status, data) ==
  [status |-> status, shape |-> "data", code |-> "", message |-> << >>,
   details |-> << >>, data |-> data]

\* ------------------------------------------------------------ API requests
Credentials ==
  { [email |-> << >>, password |-> PwGood],
    [email |-> << "a" >>, password |-> PwGood],
    [email |-> EmailAna, password |-> PwShort],
    [email |-> EmailAna, password |-> PwGood],
    [email |-> EmailAna, password |-> PwOther],
    [email |-> EmailBo, password |-> PwGood] }

\* the account whose access token the request carries
Actors == {"none", "u0", "u1"}
IdParams == { << "1" >>, << "2" >>, << "x" >> }
ProductPatches == { [price |-> 20, stock |-> 2], [price |-> 0] }
RoleParams == { << "u1" >>, << "u9" >> }
RoleBodies == { [role |-> "admin"], [role |-> "owner"], [role |-> ""] }

Requests ==
  {[op |-> "register", actor |-> "none", param |-> << >>, body |-> b] :
     b \in Credentials}
  \cup {[op |-> "login", actor |-> "none", param |-> << >>, body |-> b] :
          b \in Credentials}
  \cup {[op |-> "putProduct", actor |-> a, param |-> i, body |-> b] :
          a \in Actors, i \in IdParams, b \in ProductPatches}
  \cup {[op |-> "deleteProduct", actor |-> a, param |-> i, body |-> NoData] :
          a \in Actors, i \in IdParams}
  \cup {[op |-> "patchRole", actor |-> a, param |-> i, body |-> b] :
          a \in Actors, i \in RoleParams, b \in RoleBodies}

AdminOps == {"putProduct", "deleteProduct", "patchRole"}
OrderOps == {"getOrder", "listOrders"}

shopVars == << orderVars, wr, read >>

\* a request arrives; the server takes them one at a time here
ApiRequest(rq) ==
  /\ req.pc \in {"idle", "done"}
  /\ req' = [pc |-> IF rq.op \in AdminOps \cup OrderOps THEN "auth"
                    ELSE "handler",
             request |-> rq, user |-> NoUser, retry |-> NoRetry,
             error |-> NoResult, response |-> NoResponse]
  /\ UNCHANGED << shopVars, users, authUsers >>

\* next(err): the request ends in errorMiddleware
Failed(err) ==
  [req EXCEPT !.pc = "done", !.error = err, !.response = ErrorMiddleware(err)]

\* res.status(status).json(data)
Answered(status, data) ==
  [req EXCEPT !.pc = "done", !.response = Json(status, data)]

AuthMiddlewareCatch(err) ==
  IF IsApiError(err) THEN err
  ELSE ApiError(401, "AUTHENTICATION_FAILED", "Error de autenticacion", << >>)

\* authMiddleware: the token is checked with the provider under withRetry,
\* then the user's row is read without it
AuthMiddleware(pat, lookup) ==
  /\ req.pc = "auth"
  /\ LET a == req.request.actor
         r == RunRetry(DefaultRetry("verificacion de token"), pat, Resolved)
     IN  req' =
           IF a = "none"
           THEN Failed(AuthMiddlewareCatch(ApiError(401, "INVALID_TOKEN",
                  "Token no proporcionado o invalido", << >>)))
           ELSE IF r.st = "thrown"
           THEN [Failed(AuthMiddlewareCatch(r.thrown)) EXCEPT !.retry = r]
           ELSE IF ~(authUsers[a].exists /\ authUsers[a].session)
           THEN [Failed(AuthMiddlewareCatch(ApiError(401, "INVALID_TOKEN",
                   "Token invalido o expirado", << >>))) EXCEPT !.retry = r]
           ELSE IF lookup = "down"
           THEN [Failed(AuthMiddlewareCatch(DatastoreError("P1001")))
                   EXCEPT !.retry = r]
           ELSE IF ~users[a].exists
           THEN [Failed(AuthMiddlewareCatch(ApiError(401, "USER_NOT_FOUND",
                   "Usuario no encontrado", << >>))) EXCEPT !.retry = r]
           ELSE [req EXCEPT !.pc = IF req.request.op \in AdminOps
                                   THEN "admin"
                                   ELSE IF req.request.op = "getOrder"
                                   THEN "owns" ELSE "handler",
                            !.user = users[a], !.retry = r]
  /\ UNCHANGED << shopVars, users, authUsers >>

\* adminMiddleware
AdminMiddleware ==
  /\ req.pc = "admin"
  /\ req' = IF ~req.user.exists \/ req.user.role # "admin"
            THEN Failed(ApiError(403, "FORBIDDEN",
                   "Acceso denegado: se requiere rol de administrador",
                   << >>))
            ELSE [req EXCEPT !.pc = "handler"]
  /\ UNCHANGED << shopVars, users, authUsers >>

\* -------------------------------------------------------------- AuthService
\* what a service call leaves: its error or value, and the tables after it
Outcome(err, value, r, accts, rows) ==
  [error |-> err, value |-> value, retry |-> r, accts |-> accts,
   rows |-> rows]

\* supabase.auth.signUp when the provider answers: {data, error}
SignUp(accts, email) ==
  IF accts[AccountId(email)].exists
  THEN [kind |-> "ok", error |-> "User already registered", user |-> ""]
  ELSE [kind |-> "ok", error |-> "", user |-> AccountId(email)]

\* prisma.user.create when the datastore answers
UserCreateOutcome(rows, id) ==
  IF rows[id].exists THEN DatastoreError("P2002") ELSE Resolved

RegisterCatch(err) ==
  IF IsApiError(err) THEN err
  ELSE ApiError(500, "REGISTRATION_FAILED", "Error al registrar usuario",
                err.message)

\* AuthService.register
AuthRegister(b, pat1, pat2) ==
  LET id == AccountId(b.email)
      su == SignUp(authUsers, b.email)
      r1 == RunRetry(DefaultRetry("registro en Supabase"), pat1, su)
      accts == [authUsers EXCEPT ![id] =
                  [exists |-> TRUE, email |-> b.email,
                   password |-> b.password, session |-> FALSE]]
      r2 == RunRetry(DefaultRetry("crear usuario en Prisma"), pat2,
                     UserCreateOutcome(users, id))
      row == [exists |-> TRUE, email |-> b.email, role |-> "user",
              fresh |-> TRUE]
  IN  IF Len(b.email) = 0 \/ ~Includes(b.email, "@")
      THEN Outcome(RegisterCatch(ApiError(400, "INVALID_EMAIL",
             "El email es invalido o no fue proporcionado", << >>)),
             NoData, NoRetry, authUsers, users)
      ELSE IF Len(b.password) = 0 \/ Len(b.password) < 6
      THEN Outcome(RegisterCatch(ApiError(400, "INVALID_PASSWORD",
             "La contrasena debe tener al menos 6 caracteres", << >>)),
             NoData, NoRetry, authUsers, users)
      ELSE IF r1.st = "thrown"
      THEN Outcome(RegisterCatch(r1.thrown), NoData, r1, authUsers, users)
      ELSE IF su.error # ""
      THEN Outcome(RegisterCatch(ApiError(400, "EMAIL_ALREADY_EXISTS",
             "El email ya esta registrado", << su.error >>)),
             NoData, r1, authUsers, users)
      ELSE IF r2.st = "thrown"
      THEN Outcome(RegisterCatch(r2.thrown), NoData, r2, accts, users)
      ELSE Outcome(NoResult,
             [user |-> [id |-> id, email |-> row.email, role |-> row.role]],
             r2, accts, [users EXCEPT ![id] = row])

\* POST /auth/register
RegisterHandler(pat1, pat2) ==
  /\ req.pc = "handler" /\ req.request.op = "register"
  /\ LET b == req.request.body
         s == AuthRegister(b, pat1, pat2)
     IN  IF Len(b.email) = 0 \/ Len(b.password) = 0
         THEN /\ req' = [req EXCEPT !.pc = "done",
                                    !.response = AuthRouteMissing]
              /\ UNCHANGED << users, authUsers >>
         ELSE /\ req' = [req EXCEPT !.pc = "done", !.retry = s.retry,
                           !.error = s.error,
                           !.response = IF s.error = NoResult
                                        THEN Json(201, s.value)
                                        ELSE AuthRouteCatch(s.error)]
              /\ users' = s.rows
              /\ authUsers' = s.accts
  /\ UNCHANGED shopVars

\* supabase.auth.signInWithPassword when the provider answers
SignIn(accts, email, password) ==
  IF /\ accts[AccountId(email)].exists
     /\ accts[AccountId(email)].email = email
     /\ accts[AccountId(email)].password = password
  THEN [kind |-> "ok", error |-> "", user |-> AccountId(email)]
  ELSE [kind |-> "ok", error |-> "Invalid login credentials", user |-> ""]

LoginCatch(err) ==
  IF IsApiError(err) THEN err
  ELSE ApiError(500, "LOGIN_FAILED", "Error al iniciar sesion", err.message)

\* AuthService.login
AuthLogin(b, pat1, pat2) ==
  LET id == AccountId(b.email)
      si == SignIn(authUsers, b.email, b.password)
      r1 == RunRetry(DefaultRetry("inicio de sesion en Supabase"), pat1, si)
      r2 == RunRetry(DefaultRetry("obtener usuario en Prisma"), pat2,
                     Resolved)
  IN  IF Len(b.email) = 0 \/ ~Includes(b.email, "@")
      THEN Outcome(LoginCatch(ApiError(400, "INVALID_EMAIL",
             "El email es invalido o no fue proporcionado", << >>)),
             NoData, NoRetry, authUsers, users)
      ELSE IF Len(b.password) = 0
      THEN Outcome(LoginCatch(ApiError(400, "INVALID_PASSWORD",
             "La contrasena es requerida", << >>)),
             NoData, NoRetry, authUsers, users)
      ELSE IF r1.st = "thrown"
      THEN Outcome(LoginCatch(r1.thrown), NoData, r1, authUsers, users)
      ELSE IF si.error # ""
      THEN Outcome(LoginCatch(ApiError(400, "LOGIN_FAILED",
             "Credenciales invalidas", << si.error >>)),
             NoData, r1, authUsers, users)
      ELSE IF r2.st = "thrown"
      THEN Outcome(LoginCatch(r2.thrown), NoData, r2, authUsers, users)
      ELSE IF ~users[id].exists
      THEN Outcome(LoginCatch(ApiError(404, "USER_NOT_FOUND",
             "Usuario no encontrado", << >>)), NoData, r2, authUsers, users)
      ELSE Outcome(NoResult,
             [user |-> [id |-> id, email |-> users[id].email,
                        role |-> users[id].role]],
             r2, [authUsers EXCEPT ![id].session = TRUE], users)

\* POST /auth/login
LoginHandler(pat1, pat2) ==
  /\ req.pc = "handler" /\ req.request.op = "login"
  /\ LET b == req.request.body
         s == AuthLogin(b, pat1, pat2)
     IN  IF Len(b.email) = 0 \/ Len(b.password) = 0
         THEN /\ req' = [req EXCEPT !.pc = "done",
                                    !.response = AuthRouteMissing]
              /\ UNCHANGED authUsers
         ELSE /\ req' = [req EXCEPT !.pc = "done", !.retry = s.retry,
                           !.error = s.error,
                           !.response = IF s.error = NoResult
                                        THEN Json(200, s.value)
                                        ELSE AuthRouteCatch(s.error)]
              /\ authUsers' = s.accts
  /\ UNCHANGED << shopVars, users >>

\* ------------------------------------------------ product and user handlers
ProductExists(tbl, id) == id \in DOMAIN tbl /\ tbl[id].exists

\* prisma.product.update / delete when the datastore answers
ProductWriteOutcome(tbl, id) ==
  IF ProductExists(tbl, id) THEN Resolved ELSE DatastoreError("P2025")

\* the catch of updateProduct and deleteProduct; failed is the code of the
\* generic error of the method
ProductCatch(err, id, failedCode) ==
  IF err.code = "P2025"
  THEN ApiError(404, "PRODUCT_NOT_FOUND", "Producto no encontrado",
                << "No existe un producto con ID", id >>)
  ELSE IF IsApiError(err) THEN err
  ELSE ApiError(500, failedCode, "Error en producto", << >>)

\* the checks of updateProduct, in their order
UpdateProductCheck(data) ==
  IF Has(data, "price") /\ data.price <= 0
  THEN ApiError(400, "INVALID_PRICE", "El precio debe ser mayor a 0", << >>)
  ELSE IF Has(data, "stock") /\ data.stock < 0
  THEN ApiError(400, "INVALID_STOCK", "El stock no puede ser negativo",
                << >>)
  ELSE NoResult

InvalidId ==
  ApiError(400, "INVALID_ID", "El ID debe ser un numero valido", << >>)

\* PUT /products/{id} after the two middlewares
PutProductHandler(pat) ==
  /\ req.pc = "handler" /\ req.request.op = "putProduct"
  /\ LET id == ParseInt(req.request.param)
         data == req.request.body
         r == RunRetry(DefaultRetry("actualizar producto"), pat,
                       ProductWriteOutcome(product, id.value))
     IN  IF id.nan
         THEN req' = Failed(InvalidId) /\ UNCHANGED product
         ELSE IF UpdateProductCheck(data) # NoResult
         THEN /\ req' = Failed(ProductCatch(UpdateProductCheck(data),
                                 id.value, "PRODUCT_UPDATE_FAILED"))
              /\ UNCHANGED product
         ELSE IF r.st = "thrown"
         THEN /\ req' = [Failed(ProductCatch(r.thrown, id.value,
                            "PRODUCT_UPDATE_FAILED")) EXCEPT !.retry = r]
              /\ UNCHANGED product
         ELSE /\ product' = [product EXCEPT ![id.value] = UpdatedRow(@, data)]
              /\ req' = [Answered(200, UpdatedRow(product[id.value], data))
                           EXCEPT !.retry = r]
  /\ UNCHANGED << lock, orders, orderItems, nextOrderId, nextProductId, pc,
                  items, products, total, retry, tx, order, result, failures,
                  adminOps, decBy, failed, interfered, wr, read, users,
                  authUsers >>

\* DELETE /products/{id} after the two middlewares
DeleteProductHandler(pat) ==
  /\ req.pc = "handler" /\ req.request.op = "deleteProduct"
  /\ LET id == ParseInt(req.request.param)
         r == RunRetry(DefaultRetry("eliminar producto"), pat,
                       ProductWriteOutcome(product, id.value))
     IN  IF id.nan
         THEN req' = Failed(InvalidId) /\ UNCHANGED product
         ELSE IF r.st = "thrown"
         THEN /\ req' = [Failed(ProductCatch(r.thrown, id.value,
                            "PRODUCT_DELETE_FAILED")) EXCEPT !.retry = r]
              /\ UNCHANGED product
         ELSE /\ product' = [product EXCEPT ![id.value] = NoRow]
              /\ req' = [Answered(204, NoData) EXCEPT !.retry = r]
  /\ UNCHANGED << lock, orders, orderItems, nextOrderId, nextProductId, pc,
                  items, products, total, retry, tx, order, result, failures,
                  adminOps, decBy, failed, interfered, wr, read, users,
                  authUsers >>

\* the catch of updateUserRole
UpdateUserRoleCatch(err) ==
  IF err.code = "P2025"
  THEN ApiError(404, "USER_NOT_FOUND", "Usuario no encontrado", << >>)
  ELSE IF IsApiError(err) THEN err
  ELSE ApiError(500, "UPDATE_ROLE_FAILED",
                "Error al actualizar el rol del usuario", << >>)

\* PATCH /users/{id}/role after the two middlewares; the update is issued
\* once, without withRetry
PatchRoleHandler(lookup) ==
  /\ req.pc = "handler" /\ req.request.op = "patchRole"
  /\ LET id == req.request.param[1]
         role == req.request.body.role
     IN  IF role = ""
         THEN /\ req' = Failed(ApiError(400, "INVALID_INPUT",
                          "El campo role es requerido", << >>))
              /\ UNCHANGED users
         ELSE IF role \notin {"user", "admin"}
         THEN /\ req' = Failed(UpdateUserRoleCatch(ApiError(400,
                          "INVALID_ROLE", "Rol invalido", << >>)))
              /\ UNCHANGED users
         ELSE IF lookup = "down"
         THEN /\ req' = Failed(UpdateUserRoleCatch(DatastoreError("P1001")))
              /\ UNCHANGED users
         ELSE IF ~(id \in UserIds /\ users[id].exists)
         THEN /\ req' = Failed(UpdateUserRoleCatch(DatastoreError("P2025")))
              /\ UNCHANGED users
         ELSE /\ users' = [users EXCEPT ![id].role = role,
                                        ![id].fresh = FALSE]
              /\ req' = Answered(200, [id |-> id, role |-> role])
  /\ UNCHANGED << shopVars, authUsers >>

Outages == {"exec", "down"}

NextApi ==
  \/ \E rq \in Requests : ApiRequest(rq)
  \/ \E pat \in Patterns, lookup \in Outages : AuthMiddleware(pat, lookup)
  \/ AdminMiddleware
  \/ \E pat1 \in Patterns, pat2 \in Patterns : RegisterHandler(pat1, pat2)
  \/ \E pat1 \in Patterns, pat2 \in Patterns : LoginHandler(pat1, pat2)
  \/ \E pat \in Patterns : PutProductHandler(pat)
  \/ \E pat \in Patterns : DeleteProductHandler(pat)
  \/ \E lookup \in Outages : PatchRoleHandler(lookup)

SpecApi == Init /\ [][NextApi]_vars

\* ------------------------------------------------------------ order routes
\* the clients of the order routes
Shoppers ==
  { [email |-> EmailAna, password |-> PwGood],
    [email |-> EmailBo, password |-> PwGood] }
OrderActors == {"none", "u1", "u2"}
OrderParams == { << "1" >>, << "2" >>, << "3" >>, << "x" >> }
PageQueries == { << >>, << "1" >>, << "2" >> }
PageSizeQueries == { << >>, << "1" >> }
OrderItemLists == { << Line(1, 1) >> }

OrderRequests ==
  {[op |-> "register", actor |-> "none", param |-> << >>, body |-> b] :
     b \in Shoppers}
  \cup {[op |-> "login", actor |-> "none", param |-> << >>, body |-> b] :
          b \in Shoppers}
  \cup {[op |-> "getOrder", actor |-> a, param |-> i, body |-> NoData] :
          a \in OrderActors, i \in OrderParams}
  \cup {[op |-> "listOrders", actor |-> a, param |-> q,
         body |-> [pageSize |-> z]] :
          a \in OrderActors, q \in PageQueries, z \in PageSizeQueries}

NoOutage == [i \in 1..DefaultMaxAttempts |-> "exec"]

\* POST /orders: createOrder runs for the user authMiddleware found
PostOrder(c, its) ==
  /\ authUsers[UserOf(c)].exists /\ authUsers[UserOf(c)].session
  /\ users[UserOf(c)].exists
  /\ Start(c, its)

\* how prisma.order.findUnique({where: {id: NaN}}) may end: the client
\* rejects the query, or it resolves with null
NaNLookupOutcomes == { DatastoreError("PrismaClientValidationError"), Resolved }

\* OrderService.getOrderById(id) as the routes call it: the retry record
\* and what the call returns or throws
OrderLookup(id, pat, nanOut) ==
  LET o == IF id.nan THEN NoOrder ELSE FindOrder(orders, id.value)
      r == RunRetry(DefaultRetry("obtener pedido por ID"), pat,
                    IF id.nan THEN nanOut ELSE FindOrderOutcome(o, id.value))
  IN  [retry |-> r, row |-> o,
       result |-> IF r.st = "returned"
                  THEN GetOrderByIdReturn(o,
                         ItemsOfOrder(orderItems, product, o.id), id.value)
                  ELSE GetOrderByIdCatch(r.thrown)]

\* a middleware that lets every authenticated user through
UserOwnsOrderMiddleware_NoCheck(pat, nanOut) ==
  /\ req.pc = "owns"
  /\ LET l == OrderLookup(ParseInt(req.request.param), pat, nanOut)
     IN  req' = IF IsApiError(l.result)
                THEN [Failed(l.result) EXCEPT !.retry = l.retry]
                ELSE [req EXCEPT !.pc = "handler", !.retry = l.retry]
  /\ UNCHANGED << shopVars, users, authUsers >>

\* userOwnsOrderMiddleware: reads the order, then compares its owner with
\* the user of the request
UserOwnsOrderMiddleware(pat, nanOut) ==
  /\ req.pc = "owns"
  /\ LET userId == req.request.actor
         l == OrderLookup(ParseInt(req.request.param), pat, nanOut)
     IN  req' = IF ~req.user.exists
                THEN Failed(ApiError(401, "UNAUTHORIZED",
                       "Usuario no autenticado", << >>))
                ELSE IF IsApiError(l.result)
                THEN [Failed(l.result) EXCEPT !.retry = l.retry]
                ELSE IF l.result.userId # userId
                THEN [Failed(ApiError(403, "FORBIDDEN",
                        "No tienes permiso para acceder a este pedido",
                        << >>)) EXCEPT !.retry = l.retry]
                ELSE [req EXCEPT !.pc = "handler", !.retry = l.retry]
  /\ UNCHANGED << shopVars, users, authUsers >>

\* GET /orders/{id} after the two middlewares
GetOrderHandler(pat) ==
  /\ req.pc = "handler" /\ req.request.op = "getOrder"
  /\ LET id == ParseInt(req.request.param)
         l == OrderLookup(id, pat, Resolved)
     IN  req' = IF id.nan THEN Failed(InvalidId)
                ELSE IF IsApiError(l.result)
                THEN [Failed(l.result) EXCEPT !.retry = l.retry]
                ELSE [Answered(200, l.result) EXCEPT !.retry = l.retry]
  /\ UNCHANGED << shopVars, users, authUsers >>

\* prisma.order.findMany({where: {userId}}): the rows of the user
FindManyOrders(tbl, userId) == {o \in tbl : o.userId = userId}

\* the orders in which the datastore may return a set of rows (the query
\* has no orderBy)
Orderings(S) ==
  {s \in [1..Cardinality(S) -> S] :
     \A i, j \in 1..Cardinality(S) : s[i] = s[j] => i = j}

\* skip and take
Page(s, skip, take) ==
  LET n == IF Len(s) - skip < take THEN Len(s) - skip ELSE take
  IN  [i \in 1..(IF n < 0 THEN 0 ELSE n) |-> s[skip + i]]

\* parseInt(q) || d
OrDefault(n, d) == IF n.nan \/ n.value = 0 THEN d ELSE n.value

\* OrderService.getOrdersByUser when the datastore answers with rows
GetOrdersByUser(userId, page, pageSize, rows) ==
  LET sel == Page(rows, (page - 1) * pageSize, pageSize)
  IN  [i \in 1..Len(sel) |->
         OrderResponse(sel[i], ItemsOfOrder(orderItems, product, sel[i].id))]

GetOrdersByUserCatch(err) ==
  IF IsApiError(err) THEN err
  ELSE ApiError(500, "ORDER_FETCH_FAILED", "Error al obtener pedidos", << >>)

\* GET /orders after authMiddleware
ListOrdersHandler(pat, rows) ==
  /\ req.pc = "handler" /\ req.request.op = "listOrders"
  /\ rows \in Orderings(FindManyOrders(orders, req.request.actor))
  /\ LET userId == req.request.actor
         page == OrDefault(ParseInt(req.request.param), 1)
         pageSize == OrDefault(ParseInt(req.request.body.pageSize), 10)
         r == RunRetry(DefaultRetry("obtener pedidos por usuario"), pat,
                       Resolved)
     IN  req' = IF ~req.user.exists
                THEN Failed(ApiError(401, "UNAUTHORIZED",
                       "Usuario no autenticado", << >>))
                ELSE IF page < 1 \/ pageSize < 1
                THEN Failed(ApiError(400, "INVALID_PAGINATION",
                       "Los parametros page y pageSize deben ser mayores a 0",
                       << >>))
                ELSE IF r.st = "thrown"
                THEN [Failed(GetOrdersByUserCatch(r.thrown))
                        EXCEPT !.retry = r]
                ELSE [Answered(200, GetOrdersByUser(userId, page, pageSize,
                                                    rows))
                        EXCEPT !.retry = r]
  /\ UNCHANGED << shopVars, users, authUsers >>

NextOrders ==
  \/ \E rq \in OrderRequests : ApiRequest(rq)
  \/ \E pat \in Patterns, lookup \in Outages : AuthMiddleware(pat, lookup)
  \/ RegisterHandler(NoOutage, NoOutage)
  \/ LoginHandler(NoOutage, NoOutage)
  \/ \E c \in Calls, its \in OrderItemLists : PostOrder(c, its)
  \/ \E c \in Calls : LookupOk(c)
  \/ \E c \in Calls : TxOrderCreate(c)
  \/ \E c \in Calls : TxProductUpdate(c)
  \/ \E c \in Calls : TxCommit(c)
  \/ \E c \in Calls : ReadItems(c)
  \/ \E pat \in Patterns, nanOut \in NaNLookupOutcomes :
       UserOwnsOrderMiddleware(pat, nanOut)
  \/ \E pat \in Patterns : GetOrderHandler(pat)
  \/ \E pat \in Patterns :
       \E rows \in Orderings(FindManyOrders(orders, req.request.actor)) :
         ListOrdersHandler(pat, rows)

SpecOrders == Init /\ [][NextOrders]_vars

\* ---------------------------------------------------------------- claims
Done(c) == pc[c] = "done"
Succeeded(c) == Done(c) /\ result[c].kind = "ok"
FailedWith(c, status, code) ==
  Done(c) /\ IsApiError(result[c]) /\ result[c].status = status
          /\ result[c].code = code

\* the committed Order rows of call c (each call has its own user)
OrdersOf(c) == {o \in orders : o.userId = UserOf(c)}

\* the quantity of product p over the n first lines
RECURSIVE QtyOf(_, _, _)
QtyOf(its, p, n) ==
  IF n = 0 THEN 0
  ELSE QtyOf(its, p, n - 1)
       + (IF its[n].productId = p THEN its[n].quantity ELSE 0)

Ordered(c) == [p \in ProdIds |-> QtyOf(items[c], p, Len(items[c]))]

\* Sum over the n first lines of price x quantity, line by line
RECURSIVE LineSum(_, _, _)
LineSum(its, ps, n) ==
  IF n = 0 THEN 0
  ELSE LineSum(its, ps, n - 1) + ps[n].price * its[n].quantity

\* the lookup of call c has returned the products of its lines
LookedUp(c) == Len(items[c]) > 0 /\ Len(products[c]) = Len(items[c])

\* call c has persisted nothing and holds nothing
NothingPersisted(c) ==
  /\ OrdersOf(c) = {}
  /\ decBy[c] = NoDec
  /\ \A p \in ProdIds : lock[p] # c

Other(c) == CHOOSE d \in Calls : d # c

InsufficientReason(r) == r.kind = "Stock insuficiente para producto"

\* C1: two concurrent calls that each request the last unit of product 1
\* (quantity 1, stock 1, no other writer, no datastore failure): exactly
\* one succeeds, the other fails with an insufficient-stock INVALID_ORDER,
\* and the final stock is 0.
C1_LastUnit ==
  ( /\ Done(1) /\ Done(2)
    /\ items[1] = << Line(1, 1) >> /\ items[2] = << Line(1, 1) >>
    /\ adminOps = 0 /\ failures = 0
    /\ product[1].stock + decBy[1][1] + decBy[2][1] = 1 )
  => /\ \E c \in Calls :
          /\ Succeeded(c)
          /\ FailedWith(Other(c), 400, "INVALID_ORDER")
          /\ \E k \in 1..Len(result[Other(c)].details) :
               InsufficientReason(result[Other(c)].details[k])
     /\ product[1].stock = 0

\* C2: in every reachable state every product's stock is >= 0.
C2_StockNonNegative ==
  \A p \in ProdIds : product[p].exists => product[p].stock >= 0

\* C3: a call with a non-empty list whose lines all name an existing
\* product with 0 < quantity <= stock, that met no datastore failure and no
\* other writer, succeeds; the returned and persisted total is the sum of
\* price x quantity over its lines, and each ordered product's stock is
\* its stock before minus the ordered quantity.
C3_ValidOrderSucceeds ==
  \A c \in Calls :
    ( /\ Done(c) /\ Len(items[c]) > 0
      /\ ~failed[c] /\ ~interfered[c] /\ LookedUp(c)
      /\ \A i \in 1..Len(items[c]) :
           /\ ~IsNull(products[c][i])
           /\ items[c][i].quantity > 0
           /\ items[c][i].quantity <= products[c][i].stock )
    => /\ Succeeded(c)
       /\ result[c].total = LineSum(items[c], products[c], Len(items[c]))
       /\ \E o \in orders :
            /\ o.id = result[c].id /\ o.userId = UserOf(c)
            /\ o.total = result[c].total /\ o.status = "pending"
       /\ decBy[c] = Ordered(c)
       /\ \A i \in 1..Len(items[c]) :
            product[items[c][i].productId].stock =
              products[c][i].stock - Ordered(c)[items[c][i].productId]

\* C3 witness: a two-line order over two products went through undisturbed
C3_Witness ==
  /\ Succeeded(1) /\ ~failed[1] /\ ~interfered[1]
  /\ items[1] = << Line(1, 1), Line(2, 1) >>
  /\ result[1].total = 13

\* C4: at every state the committed tables show, for each call, either its
\* Order row together with all of its stock decrements, or none of them.
C4_OrderAndDecrementsAtomic ==
  \A c \in Calls :
    \/ OrdersOf(c) = {} /\ decBy[c] = NoDec
    \/ Cardinality(OrdersOf(c)) = 1 /\ decBy[c] = Ordered(c)

\* C4 witness: a two-line transaction was aborted after its Order insert
\* and nothing of it is visible
C4_Witness ==
  \E c \in Calls :
    /\ retry[c].op = "crear pedido" /\ retry[c].st = "wait"
    /\ Len(items[c]) = 2 /\ nextOrderId = 2 /\ pc[Other(c)] = "idle"
    /\ orders = {} /\ decBy[c] = NoDec

\* C5: every persisted Order has at least one OrderItem.
C5_OrderHasItems ==
  \A o \in orders : \E it \in orderItems : it.orderId = o.id

\* C6: items=[{productId:1, quantity:2}] with product 1 at price 10 and
\* stock 5: total 20, stock becomes 3, and the response lists exactly one
\* item {productId:1, quantity:2, price:10}.
C6_Scenario ==
  \A c \in Calls :
    ( /\ Done(c) /\ items[c] = << Line(1, 2) >> /\ LookedUp(c)
      /\ products[c][1].price = 10 /\ products[c][1].stock = 5
      /\ ~failed[c] /\ ~interfered[c] )
    => /\ Succeeded(c)
       /\ result[c].total = 20
       /\ product[1].stock = 3
       /\ Len(result[c].items) = 1
       /\ result[c].items[1].productId = 1
       /\ result[c].items[1].quantity = 2
       /\ result[c].items[1].price = 10

\* C7: when the lookup shows a line whose quantity exceeds its product's
\* stock, the call fails with INVALID_ORDER (400), and it has created no
\* Order row and changed no stock.
C7_InsufficientStockRejected ==
  \A c \in Calls :
    ( /\ LookedUp(c)
      /\ \E i \in 1..Len(items[c]) :
           ~IsNull(products[c][i])
           /\ items[c][i].quantity > products[c][i].stock )
    => /\ FailedWith(c, 400, "INVALID_ORDER")
       /\ NothingPersisted(c)
       /\ tx[c] = EmptyTx

\* C7 witness: a list with a valid line and a line that exceeds the stock
C7_Witness ==
  \E c \in Calls :
    /\ Done(c) /\ LookedUp(c) /\ Len(items[c]) = 3
    /\ ~IsNull(products[c][1])
    /\ items[c][1].quantity > products[c][1].stock
    /\ ~IsInvalidItem(products[c][3], items[c][3].quantity)

\* the message r names product id
ReasonNames(r, id) == "productId" \in DOMAIN r /\ r.productId = id

\* C8: when a line names a product id that does not exist, the call fails
\* with INVALID_ORDER whose details list that id, and nothing is persisted.
C8_MissingProductListed ==
  \A c \in Calls :
    ( /\ LookedUp(c)
      /\ \E i \in 1..Len(items[c]) : IsNull(products[c][i]) )
    => /\ FailedWith(c, 400, "INVALID_ORDER")
       /\ \A i \in 1..Len(items[c]) :
            IsNull(products[c][i]) =>
              \E k \in 1..Len(result[c].details) :
                ReasonNames(result[c].details[k], items[c][i].productId)
       /\ NothingPersisted(c)

\* C9: the writes of a failed attempt of the transaction are gone before
\* the next attempt starts; once the transaction has committed, on
\* whichever attempt, exactly one Order row of the call exists and each
\* ordered product has been decremented exactly once.
C9_RetriesSeeNoPartialState ==
  \A c \in Calls :
    /\ (pc[c] = "txCreate") => NothingPersisted(c) /\ tx[c] = EmptyTx
    /\ (order[c].id # 0) =>
         /\ OrdersOf(c) = {order[c]}
         /\ decBy[c] = Ordered(c)

\* C9 witness: the transaction committed on its third attempt
C9_Witness ==
  \E c \in Calls :
    /\ order[c].id = 3 /\ pc[Other(c)] = "idle" /\ failures = 2
    /\ OrdersOf(c) = {order[c]}

\* C10: an ApiError raised by the operation under withRetry is re-raised
\* as-is on its first occurrence: no wait and no further invocation.
C10_DomainErrorNotRetried ==
  IsApiError(wr.lastError) =>
    /\ wr.st = "thrown"
    /\ wr.thrown = wr.lastError

\* C11: an operation that fails on its first j attempts (j < maxAttempts)
\* and then succeeds: withRetry returns after exactly j+1 invocations,
\* having waited baseDelay*2^(k-1) after failed attempt k, in total
\* baseDelay*(2^j - 1); for j = 2 that is baseDelay + baseDelay*2.
C11_BackoffSchedule ==
  /\ wr.st = "wait" => wr.delay = wr.base * 2^(wr.attempt - 1)
  /\ wr.st = "returned" =>
       /\ wr.attempt <= wr.max
       /\ wr.calls = wr.attempt
       /\ wr.waited = wr.base * (2^(wr.attempt - 1) - 1)
       /\ wr.attempt = 3 => wr.waited = wr.base + wr.base * 2

\* C11 witness: two failures, then success, with the default arguments
C11_Witness ==
  /\ wr.st = "returned" /\ wr.max = DefaultMaxAttempts
  /\ wr.base = DefaultBaseDelayMs /\ wr.calls = 3 /\ wr.waited = 3000

\* the invocations and waits of a withRetry that gave up with max >= 1
ExhaustedAfterMax ==
  /\ wr.calls = wr.max
  /\ wr.waited = wr.base * (2^(wr.max - 1) - 1)
  /\ wr.delay = 0

ThrownRetryFailed ==
  /\ IsApiError(wr.thrown) /\ wr.thrown.status = 500
  /\ wr.thrown.code = "RETRY_FAILED"
  /\ wr.thrown.details = wr.lastError.message

\* C12 as stated: an operation that always fails, maxAttempts = n >= 1: n
\* invocations, waits only between attempts, then RETRY_FAILED (500) whose
\* details are the message of the last failure.
C12_AlwaysRetryFailed ==
  (wr.st = "thrown" /\ wr.max >= 1) => ExhaustedAfterMax /\ ThrownRetryFailed

\* C12 amended: as above, with RETRY_FAILED when the last failure is not an
\* ApiError
C12_Exhaustion ==
  (wr.st = "thrown" /\ wr.max >= 1) =>
    /\ ExhaustedAfterMax
    /\ ~IsApiError(wr.lastError) => ThrownRetryFailed

\* C12 witness: three datastore failures with maxAttempts = 3
C12_Witness ==
  /\ wr.st = "thrown" /\ wr.max = 3 /\ wr.calls = 3
  /\ wr.waited = 3 * wr.base /\ wr.thrown.code = "RETRY_FAILED"

\* C13: when the failure of the final attempt is an ApiError, withRetry
\* re-raises that error unchanged; only other failures are wrapped in
\* RETRY_FAILED.
C13_DomainErrorUnchanged ==
  (wr.st = "thrown" /\ wr.max >= 1) =>
    IF IsApiError(wr.lastError)
    THEN wr.thrown = wr.lastError
    ELSE wr.thrown.code = "RETRY_FAILED"

\* C13 witness: the third and last attempt failed with a 404 ApiError
C13_Witness ==
  /\ wr.st = "thrown" /\ wr.max = 3 /\ wr.calls = 3
  /\ wr.thrown.code = "ORDER_NOT_FOUND" /\ wr.thrown.status = 404

\* C14: createOrder with an empty items list fails with INVALID_ITEMS (400)
\* before any I/O: no lookup, no transaction, no retry attempt, and nothing
\* of the call in the datastore.
C14_EmptyItemsRejected ==
  \A c \in Calls :
    (Started(c) /\ items[c] = << >>) =>
      /\ FailedWith(c, 400, "INVALID_ITEMS")
      /\ retry[c] = NoRetry /\ retry[c].calls = 0
      /\ products[c] = << >>
      /\ tx[c] = EmptyTx /\ order[c] = NoOrder
      /\ NothingPersisted(c)
      /\ ~failed[c]

\* C14 witness: an empty call is done while the other call has committed
C14_Witness ==
  \E c \in Calls :
    /\ Done(c) /\ items[c] = << >> /\ result[c].code = "INVALID_ITEMS"
    /\ Succeeded(Other(c)) /\ OrdersOf(c) = {}

\* the class of line i of call c, from the product its lookup returned
LineClass(c, i) ==
  IF products[c][i].id = 0 THEN "Producto no encontrado"
  ELSE IF items[c][i].quantity <= 0 THEN "Cantidad invalida para producto"
  ELSE IF items[c][i].quantity > products[c][i].stock
       THEN "Stock insuficiente para producto"
       ELSE "valida"

BadLines(c) == {i \in 1..Len(items[c]) : LineClass(c, i) # "valida"}

\* the k-th offending line of call c, in line order
KthBadLine(c, k) ==
  CHOOSE i \in BadLines(c) : Cardinality({j \in BadLines(c) : j < i}) = k - 1

\* C15: the INVALID_ORDER error carries exactly one reason per offending
\* line, in line order, classified as not found, quantity <= 0 or
\* insufficient stock in that precedence, and none for a valid line.
C15_AllViolationsReported ==
  \A c \in Calls :
    FailedWith(c, 400, "INVALID_ORDER") =>
      LET d == result[c].details
      IN  /\ Len(d) = Cardinality(BadLines(c))
          /\ Len(d) >= 1
          /\ \A k \in 1..Len(d) :
               LET i == KthBadLine(c, k)
               IN  /\ d[k].kind = LineClass(c, i)
                   /\ d[k].kind # "Producto no encontrado" =>
                        d[k].name = products[c][i].name
                   /\ d[k].kind = "Stock insuficiente para producto" =>
                        d[k].disponible = products[c][i].stock

\* C15 witness: three lines, the first two invalid for different causes
C15_Witness ==
  \E c \in Calls :
    /\ FailedWith(c, 400, "INVALID_ORDER") /\ Len(items[c]) = 3
    /\ Len(result[c].details) = 2
    /\ result[c].details[1].kind = "Stock insuficiente para producto"
    /\ result[c].details[2].kind = "Cantidad invalida para producto"

\* the order rows a getOrderById call looked into held no row of its id
ReadMissed(rd) == ~\E o \in rd.seen[1] : o.id = rd.id
ReadNotFound(res) == IsApiError(res) /\ res.code = "ORDER_NOT_FOUND"

\* C18: getOrderById for an id without an Order row fails with
\* ORDER_NOT_FOUND (404), found by one lookup that succeeded and was not
\* retried, and the call changes no datastore row.
C18_MissingOrderNotFound ==
  [][ read' # read =>
        /\ (read'.retry.st = "returned" /\ ReadMissed(read')) =>
             /\ ReadNotFound(read'.result) /\ read'.result.status = 404
        /\ ReadNotFound(read'.result) =>
             /\ ReadMissed(read')
             /\ read'.retry.st = "returned"
             /\ read'.retry.calls = read'.retry.attempt
             /\ ~IsApiError(read'.retry.lastError)
             /\ UNCHANGED dbVars ]_vars

\* C18 witness: id 3 is asked for while an order exists, and is found
\* missing by the first lookup
C18_Witness ==
  /\ read.id = 3 /\ orders # {} /\ ReadNotFound(read.result)
  /\ read.retry.calls = 1 /\ read.retry.waited = 0

\* the call came back from its lookup: a response or ORDER_NOT_FOUND
ReadAnswered(res) == res.kind = "ok" \/ ReadNotFound(res)

\* C19: two getOrderById calls for the same id with no write in between
\* return identical results, and no call changes a datastore row.
C19_ReadsIdempotent ==
  [][ read' # read =>
        /\ UNCHANGED dbVars
        /\ ( /\ read'.prev.id = read'.id
             /\ read'.prev.seen = read'.seen
             /\ ReadAnswered(read'.prev.result)
             /\ ReadAnswered(read'.result) )
           => read'.result = read'.prev.result ]_vars

\* C19 witness: order 1 was read twice in a row and returned both times
C19_Witness ==
  /\ read.id = 1 /\ read.prev.id = 1 /\ read.prev.seen = read.seen
  /\ read.result.kind = "ok" /\ read.prev.result.kind = "ok"
  /\ read.result.id = 1 /\ read.result = read.prev.result

\* the request was answered with an error status
ErrorAnswer == req.pc = "done" /\ req.response.status >= 400

\* C16: every error response of every endpoint has the shape
\* {error: {code, message, details}} with a code and the HTTP status of the
\* underlying ApiError.
C16_ErrorsStructured ==
  ErrorAnswer =>
    /\ req.response.shape = "structured"
    /\ req.response.code # ""
    /\ IsApiError(req.error) =>
         /\ req.response.status = req.error.status
         /\ req.response.code = req.error.code

\* the write of the request found no row of its id
NoSuchProduct ==
  /\ req.pc = "done" /\ req.request.op \in {"putProduct", "deleteProduct"}
  /\ req.retry.lastError = DatastoreError("P2025")

\* C17: updating or deleting a product id that does not exist fails with
\* status 404 and code PRODUCT_NOT_FOUND.
C17_MissingProductNotFound ==
  NoSuchProduct =>
    /\ req.response.status = 404
    /\ req.response.code = "PRODUCT_NOT_FOUND"
    /\ ~ProductExists(product, ParseInt(req.request.param).value)

\* C20: a user created through register is stored with the administrator
\* role, and passes the admin check of the product-mutation and role-update
\* endpoints while that role is the one register stored.
C20_RegisteredIsAdmin ==
  /\ ( /\ req.pc = "done" /\ req.request.op = "register"
       /\ req.response.status = 201 )
     => /\ users[AccountId(req.request.body.email)].role = "admin"
        /\ req.response.data.user.role = "admin"
  /\ ( /\ req.pc = "done" /\ req.request.op \in AdminOps
       /\ req.user.exists /\ req.user.fresh )
     => ~(IsApiError(req.error) /\ req.error.code = "FORBIDDEN")

\* C21: withRetry does not look at the kind of a failure: after every failed
\* attempt but the last it waits and retries, so an operation that always
\* fails is invoked exactly maxAttempts times, be the failure an ApiError
\* or a datastore failure.
C21_RetriesWhateverTheKind ==
  [][ /\ (wr.st = "run" /\ wr'.calls = wr.calls + 1 /\ wr'.st # "returned")
         => IF wr.attempt < wr.max
            THEN wr'.st = "wait" /\ wr'.delay > 0 /\ wr'.attempt = wr.attempt
            ELSE wr'.st = "thrown"
      /\ (wr.st = "wait" /\ wr' # wr)
         => wr'.st = "run" /\ wr'.attempt = wr.attempt + 1
      /\ (wr'.st = "thrown" /\ wr'.max >= 1) => wr'.calls = wr'.max ]_vars

\* C21 witness: the backoff after a second attempt that failed with an
\* ApiError
C21_Witness ==
  /\ wr.st = "wait" /\ IsApiError(wr.lastError) /\ wr.attempt = 2
  /\ wr.calls = 2 /\ wr.max = DefaultMaxAttempts

\* C28: every failure raised by withRetry is an ApiError, the operation's
\* own or RETRY_FAILED, for every maxAttempts (0 and negative included); for
\* maxAttempts >= 1 the operation is invoked at least once.
C28_ThrowsOnlyApiErrors ==
  /\ wr.st = "thrown" =>
       /\ IsApiError(wr.thrown)
       /\ wr.thrown = wr.lastError \/ wr.thrown.code = "RETRY_FAILED"
  /\ (wr.max >= 1 /\ wr.st \in {"returned", "thrown"}) => wr.calls >= 1

\* the lookup of call c is complete and every line passed the validation
Validated(c) ==
  /\ LookedUp(c)
  /\ \A i \in 1..Len(items[c]) : LineClass(c, i) = "valida"

\* the transaction of call c has executed a statement
TxOpened(c) == tx[c] # EmptyTx

\* C22: within one createOrder call the lookup and the validation of all
\* lines are complete before the transaction opens (none opens when the
\* validation fails), the Order insert precedes every stock decrement, and
\* the item read-back starts only after the commit.
C22_StepsOrdered ==
  \A c \in Calls :
    /\ (InTx(c) \/ TxOpened(c)) =>
         Validated(c) /\ retry[c].op = "crear pedido"
    /\ pc[c] = "lookup" => ~TxOpened(c) /\ order[c] = NoOrder
    /\ (FailedWith(c, 400, "INVALID_ORDER")
          \/ FailedWith(c, 400, "INVALID_ITEMS")) =>
         /\ ~TxOpened(c) /\ order[c] = NoOrder /\ NothingPersisted(c)
         /\ retry[c].op # "crear pedido"
    /\ tx[c].dec # NoDec => tx[c].order # NoOrder
    /\ pc[c] \in {"txUpdate", "txCommit"} => tx[c].order # NoOrder
    /\ pc[c] = "txCreate" => ~TxOpened(c)
    /\ (pc[c] = "readItems" \/ Succeeded(c)) =>
         /\ order[c] \in orders /\ ~TxOpened(c)
         /\ \A p \in ProdIds : lock[p] # c

\* C22 witness: a two-line order has committed and its read-back waits
\* for the datastore
C22_Witness ==
  \E c \in Calls :
    /\ pc[c] = "readItems" /\ Len(items[c]) = 2 /\ order[c] \in orders
    /\ decBy[c][1] = 1 /\ decBy[c][2] = 1

\* some product's price changes in this step
PriceChanges ==
  \E p \in ProdIds :
    /\ product[p].exists /\ product'[p].exists
    /\ product'[p].price # product[p].price

\* C23: an updateProduct that changes a price leaves every existing Order's
\* total and every OrderItem's price unchanged: reading any order after the
\* change returns what reading it before the change returned.
C23_PriceChangeKeepsOrders ==
  [][ PriceChanges =>
        /\ orders' = orders /\ orderItems' = orderItems
        /\ \A o \in orders :
             GetOrderByIdReturn(FindOrder(orders', o.id),
                                ItemsOfOrder(orderItems', product', o.id),
                                o.id)
             = GetOrderByIdReturn(FindOrder(orders, o.id),
                                  ItemsOfOrder(orderItems, product, o.id),
                                  o.id)
        /\ \A c \in Calls : Done(c) => result'[c] = result[c] ]_vars

\* C23 witness: product 1 costs 20 now and an order made at price 10 is
\* still stored with total 10
C23_Witness ==
  /\ product[1].exists /\ product[1].price = 20
  /\ \E o \in orders : o.total = 10
  /\ \E c \in Calls : Succeeded(c) /\ result[c].total = 10

\* some product is asked for, over all the lines of call c, in a greater
\* quantity than the stock the lookup found
SumExceedsStock(c) ==
  \E i \in 1..Len(items[c]) :
    /\ products[c][i].id # 0
    /\ Ordered(c)[items[c][i].productId] > products[c][i].stock

\* C24: a request is accepted only if, for each product, the sum of its
\* quantities over all its lines is <= its stock; otherwise it is rejected
\* with INVALID_ORDER and decrements nothing.
C24_DuplicateLinesSummed ==
  \A c \in Calls :
    (Done(c) /\ LookedUp(c) /\ SumExceedsStock(c)) =>
      /\ FailedWith(c, 400, "INVALID_ORDER")
      /\ decBy[c] = NoDec

\* where call c stands among the three retried phases: 1 lookup,
\* 2 transaction, 3 read-back
Phase(c) ==
  IF pc[c] = "lookup" THEN 1
  ELSE IF InTx(c) THEN 2
  ELSE IF pc[c] = "readItems" THEN 3
  ELSE IF pc[c] = "done" THEN 4 ELSE 0

\* C30: every createOrder call terminates when the datastore answers and
\* the timers fire: it ends with a response or an error, each of its three
\* phases makes at most 3 attempts and 2 waits, and no phase is entered
\* twice (at most 9 attempts and 6 waits in all).
C30_CreateOrderTerminates ==
  /\ \A c \in Calls : Started(c) ~> (Done(c) /\ result[c] # NoResult)
  /\ [](\A c \in Calls :
          (Started(c) /\ items[c] # << >>) =>
            /\ retry[c].max = DefaultMaxAttempts
            /\ retry[c].attempt <= DefaultMaxAttempts
            /\ retry[c].calls <= DefaultMaxAttempts
            /\ retry[c].waited <= DefaultBaseDelayMs + 2 * DefaultBaseDelayMs)
  /\ [][\A c \in Calls :
          /\ Phase(c)' >= Phase(c)
          /\ Phase(c) = 4 => (pc'[c] = pc[c] /\ result'[c] = result[c])
          /\ Phase(c)' = Phase(c) => retry'[c].calls >= retry[c].calls]_vars

\* C30 witness: a call ended with RETRY_FAILED after three failed
\* read-backs, having passed the two phases before
C30_Witness ==
  \E c \in Calls :
    /\ FailedWith(c, 500, "RETRY_FAILED")
    /\ retry[c].op = "obtener items del pedido" /\ retry[c].calls = 3
    /\ retry[c].waited = 3000

\* C25: whenever a createOrder call ends with an error, that call has
\* persisted no Order row and changed no product's stock, also when the
\* failure happens in the read-back after the commit.
C25_ErrorLeavesNothing ==
  \A c \in Calls :
    (Done(c) /\ IsApiError(result[c])) =>
      OrdersOf(c) = {} /\ decBy[c] = NoDec

\* C26: after any register call completes, with success or with an error,
\* an account for that email exists in the auth provider if and only if a
\* User row of the same id exists in the datastore.
C26_RegisterConsistent ==
  (req.pc = "done" /\ req.request.op = "register") =>
    LET id == AccountId(req.request.body.email)
    IN  authUsers[id].exists <=> users[id].exists

\* the orders a finished request handed to its client
Returned ==
  IF req.pc = "done" /\ req.response.shape = "data"
  THEN IF req.request.op = "getOrder" THEN {req.response.data}
       ELSE IF req.request.op = "listOrders"
       THEN {req.response.data[i] : i \in 1..Len(req.response.data)}
       ELSE {}
  ELSE {}

\* the ownership middleware has just read, for a user, an order of
\* somebody else
ReadsForeignOrder ==
  /\ req.pc = "owns" /\ req'.pc # "owns" /\ req.user.exists
  /\ req'.retry.st = "returned"
  /\ LET id == ParseInt(req.request.param)
     IN  /\ ~id.nan
         /\ FindOrder(orders, id.value).id # 0
         /\ FindOrder(orders, id.value).userId # req.request.actor

\* C27: no endpoint returns an order to a user other than its owner:
\* GET /orders/{id} and GET /orders hand out only orders whose userId is the
\* authenticated user's id, and GET /orders/{id} for somebody else's order
\* ends with 403 FORBIDDEN and without the order.
C27_OnlyOwnerReads ==
  /\ [](\A o \in Returned :
          /\ o.userId = req.request.actor
          /\ \E x \in orders : x.id = o.id /\ x.userId = req.request.actor)
  /\ [][ ReadsForeignOrder =>
           /\ req'.pc = "done"
           /\ req'.response.status = 403
           /\ req'.response.code = "FORBIDDEN"
           /\ req'.response.data = NoData ]_vars

\* C27 witness: u2 asked for the order of u1 and got 403, while u2 has an
\* order of their own
C27_Witness ==
  /\ req.pc = "done" /\ req.request.op = "getOrder"
  /\ req.request.actor = "u2" /\ req.request.param = << "1" >>
  /\ FindOrder(orders, 1).userId = "u1"
  /\ \E o \in orders : o.userId = "u2"
  /\ req.response.status = 403 /\ req.response.code = "FORBIDDEN"

\* C29: GET /orders/{id} with a non-numeric id by an authenticated user is
\* rejected with INVALID_ID (status 400) without any order lookup or retry.
C29_BadIdRejectedFirst ==
  ( /\ req.pc = "done" /\ req.request.op = "getOrder"
    /\ req.user.exists /\ ParseInt(req.request.param).nan )
  => /\ req.response.status = 400
     /\ req.response.code = "INVALID_ID"
     /\ req.retry.op # "obtener pedido por ID"

====
